---------------------------- MODULE Spec2Model ----------------------------
(***************************************************************************)
(* The extended transaction manager of inchworks/webparts (package etx),   *)
(* as a state machine.  The model follows the newest revision of etx.go    *)
(* held in src/unnamed/part_001, lines 1-530: a TM with a cache            *)
(* map[TxId]*etxOps of immediate and timed operation slices, a redo store, *)
(* a background worker, and RM.Operation calls made outside the mutex.     *)
(*                                                                         *)
(* A TxId is the clock reading of Begin, and an operation is due at        *)
(* Timestamp(tx) + delay * time.Second, as in the code.  The clock unit is *)
(* a microsecond instead of a nanosecond, so that every time of the model  *)
(* fits the checker's 32-bit integers; one unit is still the resolution of *)
(* the ids.                                                                *)
(*                                                                         *)
(* Every TM method that runs under tm.mu from start to end is one action.  *)
(* doNext releases the mutex around rm.Operation, so it is split there:    *)
(* the part up to the call (DoCall, Loop, WorkerTick, RecoverVisit), the   *)
(* RM's End call (End) and the part after the call returns (OpReturn).     *)
(* An RM that ends synchronously is an End step before OpReturn; an        *)
(* asynchronous one is an End step after it.                               *)
(*                                                                         *)
(* In Spec every id allocation reads a clock value later than the last     *)
(* one; allocations that read the same clock value are explored in SpecId. *)
(***************************************************************************)
EXTENDS Integers, Sequences, FiniteSets, TLC

VARIABLES
    now,        \* the wall clock, time.Now().UnixNano()
    lastId,     \* TM.lastId
    store,      \* the redo store: a set of Redo records
    etxs,       \* TM.etxs: cached transactions, TxId -> etxOps
    muLeaked,   \* TRUE when a method has returned with tm.mu still locked
    fr,         \* per caller: its position in the doNext loop
    invs,       \* the RM.Operation invocations since start-up, in dispatch order
    phase,      \* "up", "down" (crashed) or "recovering" (inside Recover)
    todo,       \* transactions Recover's loop has still to visit
    mgrs,       \* the resource managers passed to Recover
    txs,        \* history: the TxIds returned by Begin
    reg,        \* history: every operation added, by id, with its fate and
                \* whether it had not ended when the process last crashed
    issued,     \* history: the ids newId has returned since start-up, in order
    crashes,    \* history: number of crashes so far
    erred,      \* history: some TM call has returned an error
    codes,      \* history: the String code handed out for a TxId
    owed,       \* TRUE when tm.mu has been unlocked once more than locked
    next,       \* V1 TM.next: the operations cached for DoNext, by TxId
    storeV1,    \* the V1 redo log: a set of RedoV1 records
    maxV1       \* TM.maxV1: the last operation found in the V1 store

vars == << now, lastId, store, etxs, muLeaked, fr, invs, phase, todo, mgrs,
           txs, reg, issued, crashes, erred, codes, owed, next, storeV1,
           maxV1 >>

\* the state of the V1 interface and of its remnants
v1vars == << next, storeV1, maxV1 >>

-----------------------------------------------------------------------------
(* Bounds of the model *)

MaxTx == 1          \* Begin calls
MaxOps == 3         \* AddNext/AddTimed calls (SpecCalls, SpecTimed)
MaxFew == 2         \* AddNext/AddTimed calls (Spec)
MaxDisp == 3        \* RM.Operation invocations per process lifetime
MaxDelay == 3       \* largest delay passed to AddTimed, in seconds
MaxSeconds == 3     \* whole seconds the clock may jump ahead
MaxCrash == 1       \* crashes
MaxIssue == 4       \* id allocations (SpecId)
MaxClock == 3       \* last clock reading (SpecId)
MaxBad == 1         \* redo records whose payload cannot be unmarshalled
MaxTxs == 2         \* Begin calls (SpecForget)
MaxCode == 1400     \* first clock reading (SpecCode)
MaxV1Id == 2        \* latest clock reading of the V1 program (SpecUpgrade)
MaxQuarters == 6    \* longest duration passed to AddTimed, in quarter seconds

(* Program constants *)

redoNext == 1
redoTimed == 2
Second == 1000000        \* time.Second, in clock units
Base == 36               \* the base of the transaction codes

RMs == {"rmA", "rmB"}        \* resource manager names
OpTypes == {1, 2}            \* application operation types
OpKinds == {<<"rmA", 1>>, <<"rmB", 2>>}  \* the (manager, opType) of added operations
\* a goroutine calling Do, the worker, Recover, a goroutine inside addOp
Procs == {"app", "wk", "rc", "ad"}
SomeRMs == {"rmA"}           \* a Recover call that leaves a manager out

-----------------------------------------------------------------------------
(* Pure helpers of the package *)

\* Timestamp: the transaction id is also its start time.
Timestamp(tx) == tx

\* newId: the clock reading t, bumped by one when it equals the last id issued.
newId(t, last) == IF t = last THEN t + 1 ELSE t

\* the due time computed by addOp
addOpDue(tx, delay) == Timestamp(tx) + Second * delay

\* (a due time counted from the operation id instead of the transaction id)
dueFromId(r) == Timestamp(r.Id) + Second * r.Delay

\* the due time computed by Recover from a redo record
RecoverDue(r) == Timestamp(r.Tx) + Second * r.Delay

\* AddTimed: the delay in whole seconds, at least one
timedDelay(secs) == IF secs = 0 THEN 1 ELSE secs

\* int(math.Round(after.Seconds())): the nearest whole number of seconds,
\* a half rounded away from zero
roundSeconds(after) ==
    IF after >= 0
      THEN (2 * after + Second) \div (2 * Second)
      ELSE 0 - ((2 * (0 - after) + Second) \div (2 * Second))

\* strconv.FormatInt(n, 36) for n >= 0: the string of base-36 digits, the
\* most significant first (a string is the sequence of its digit values)
RECURSIVE FormatInt(_)
FormatInt(n) ==
    IF n < Base THEN << n >>
    ELSE FormatInt(n \div Base) \o << n % Base >>

\* reverse: the characters of a string in reverse order
reverse(s) == [i \in 1..Len(s) |-> s[Len(s) + 1 - i]]

\* the value of a string of digits, the most significant first
RECURSIVE digitsValue(_)
digitsValue(s) ==
    IF s = << >> THEN 0
    ELSE digitsValue(SubSeq(s, 1, Len(s) - 1)) * Base + s[Len(s)]

\* (a parser that takes the first digit as the least significant)
ParseIntLow(s) ==
    [id |-> digitsValue(reverse(s)), err |-> s = << >>]

\* strconv.ParseInt(s, 36, 64): the value, and whether it returns an error
ParseInt(s) ==
    [id |-> digitsValue(s), err |-> s = << >>]

\* String returns a formatted transaction number, reversed.
String(tx) == reverse(FormatInt(tx))

\* Id returns a transaction identifier from its string representation.
Id(s) == ParseInt(reverse(s))

\* a new etxOps, as saveOp makes it (Go zero values for the flags)
NewEtx == [isTimed |-> FALSE, active |-> FALSE, sorted |-> FALSE,
           immediate |-> <<>>, timed |-> <<>>]

\* saveOp: append an operation to the cached list of its kind.
saveOp(c, tx, tmType, tmOp) ==
    LET etx == IF tx \in DOMAIN c THEN c[tx] ELSE NewEtx
        upd == IF tmType = redoNext
                 THEN [etx EXCEPT !.immediate = Append(@, tmOp)]
                 ELSE IF tmType = redoTimed
                        THEN [etx EXCEPT !.timed = Append(@, tmOp),
                                         !.sorted = FALSE]
                        ELSE etx
    IN  [t \in DOMAIN c \cup {tx} |-> IF t = tx THEN upd ELSE c[t]]

\* (a delete that empties the map)
deleteAll(c, tx) == << >>

\* delete(tm.etxs, tx)
deleteTx(c, tx) == [t \in DOMAIN c \ {tx} |-> c[t]]

\* sort.SliceStable by due: insertion after every element that is not later
RECURSIVE insertByDue(_, _)
insertByDue(s, x) ==
    IF s = <<>> THEN <<x>>
    ELSE IF x.due < Head(s).due THEN <<x>> \o s
         ELSE <<Head(s)>> \o insertByDue(Tail(s), x)

\* (the slice as it is, unsorted)
keepOrder(s) == s

\* (a sort that puts an operation before those due at the same time)
RECURSIVE insertBeforeTies(_, _)
insertBeforeTies(s, x) ==
    IF s = <<>> THEN <<x>>
    ELSE IF x.due <= Head(s).due THEN <<x>> \o s
         ELSE <<Head(s)>> \o insertBeforeTies(Tail(s), x)

RECURSIVE sortTiesReversed(_)
sortTiesReversed(s) ==
    IF s = <<>> THEN <<>>
    ELSE insertBeforeTies(sortTiesReversed(SubSeq(s, 1, Len(s) - 1)),
                          s[Len(s)])

RECURSIVE sortStable(_)
sortStable(s) ==
    IF s = <<>> THEN <<>>
    ELSE insertByDue(sortStable(SubSeq(s, 1, Len(s) - 1)), s[Len(s)])

\* RedoStore.All: the records in id order
RECURSIVE storeAll(_)
storeAll(S) ==
    IF S = {} THEN <<>>
    ELSE LET m == CHOOSE r \in S : \A q \in S : r.Id <= q.Id
         IN  <<m>> \o storeAll(S \ {m})

\* (a store that drops nothing)
keepStore(S, id) == S

\* RedoStore.DeleteId
storeDeleteId(S, id) == {r \in S : r.Id # id}

\* (a removal that drops the last operation, whatever i is)
dropLast(ops, i) == SubSeq(ops, 1, Len(ops) - 1)

\* forget: scan the operations from the end, removing those of the manager
\* and type; the ids removed are deleted from the store afterwards.
removeAt(ops, i) == SubSeq(ops, 1, i - 1) \o SubSeq(ops, i + 1, Len(ops))

RECURSIVE forgetScan(_, _, _, _, _)
forgetScan(ops, i, name, opType, toDel) ==
    IF i = 0 THEN [ops |-> ops, toDel |-> toDel]
    ELSE IF ops[i].rm = name /\ ops[i].opType = opType
           THEN forgetScan(removeAt(ops, i), i - 1, name, opType,
                           Append(toDel, ops[i].id))
           ELSE forgetScan(ops, i - 1, name, opType, toDel)

\* (a scan that reports the matching ids and removes nothing)
forgetKeep(ops, name, opType) ==
    [ops |-> ops,
     toDel |-> forgetScan(ops, Len(ops), name, opType, << >>).toDel]

forget(ops, name, opType) == forgetScan(ops, Len(ops), name, opType, << >>)

RECURSIVE storeDeleteAll(_, _)
storeDeleteAll(S, ids) ==
    IF ids = << >> THEN S
    ELSE storeDeleteAll(storeDeleteId(S, Head(ids)), Tail(ids))

Range(s) == {s[i] : i \in 1..Len(s)}

\* Forget(tx, rm, opType) on cache c and store S: the cache and store it
\* leaves, the ids it passes to DeleteId, and whether it returns an error.
ForgetCall(c, S, tx, rm, opType) ==
    IF tx \notin DOMAIN c
      THEN \* "Invalid transaction ID"
           [etxs |-> c, store |-> S, dels |-> << >>, err |-> TRUE]
      ELSE LET fi == forget(c[tx].immediate, rm, opType)
               ft == forget(c[tx].timed, rm, opType)
           IN  [etxs |-> [c EXCEPT ![tx].immediate = fi.ops,
                                   ![tx].timed = ft.ops],
                store |-> storeDeleteAll(S, fi.toDel \o ft.toDel),
                dels |-> fi.toDel \o ft.toDel,
                err |-> FALSE]

-----------------------------------------------------------------------------
\* A caller's frame: where it is (pc), and the locals it holds there: the
\* transaction, the kind of operations, whether its etxOps has been deleted
\* from the map meanwhile, its invocation, and, inside Forget, the manager,
\* the type and the slice that was read from the etxOps, and, inside addOp,
\* the id of the operation.
Idle == [pc |-> "idle", tx |-> 0, timed |-> FALSE, orph |-> "no", inv |-> 0,
         rm |-> "", opType |-> 0, ops |-> << >>, id |-> 0]

Init ==
    /\ now = 1
    /\ lastId = 0
    /\ store = {}
    /\ etxs = << >>
    /\ muLeaked = FALSE
    /\ fr = [p \in Procs |-> Idle]
    /\ invs = << >>
    /\ phase = "up"
    /\ todo = {}
    /\ mgrs = RMs
    /\ txs = {}
    /\ reg = << >>
    /\ issued = << >>
    /\ crashes = 0
    /\ erred = FALSE
    /\ codes = << >>
    /\ owed = FALSE
    /\ next = << >>
    /\ storeV1 = {}
    /\ maxV1 = 0

\* (a Begin that makes the cache entry of the new transaction)
beginEntry(c, id) ==
    [t \in DOMAIN c \cup {id} |-> IF t \in DOMAIN c THEN c[t] ELSE NewEtx]

\* the cache as Begin leaves it: Begin does not touch tm.etxs
beginCache(c, id) == c

\* Begin, reading the clock value t
BeginAt(t) ==
    /\ ~muLeaked
    /\ LET id == newId(t, lastId) IN
         /\ lastId' = id
         /\ txs' = txs \cup {id}
         /\ etxs' = beginCache(etxs, id)

Begin ==
    /\ phase = "up"
    /\ Cardinality(txs) < MaxTx
    /\ now' = now + 1
    /\ BeginAt(now')
    /\ UNCHANGED << store, muLeaked, fr, invs, phase, todo, mgrs, reg,
                    issued, crashes, erred, codes, owed, v1vars >>

\* Begin, for a few transactions
BeginSome ==
    /\ phase = "up"
    /\ Cardinality(txs) < MaxTxs
    /\ now' = now + 1
    /\ BeginAt(now')
    /\ UNCHANGED << store, muLeaked, fr, invs, phase, todo, mgrs, reg,
                    issued, crashes, erred, codes, owed, v1vars >>

\* addOp, reading the clock value t: cache the operation, allocate its id,
\* insert the redo record, with a store whose Insert fails or not.
addOpWith(t, tx, rm, tmType, delay, opType, fails) ==
    /\ phase = "up"
    /\ ~muLeaked
    /\ LET id == newId(t, lastId)
           due == addOpDue(tx, delay)
           tmOp == [id |-> id, rm |-> rm, due |-> due, opType |-> opType]
           r == [Id |-> id, Tx |-> tx, Manager |-> rm, RedoType |-> tmType,
                 Delay |-> delay, OpType |-> opType, Operation |-> "json"]
       IN
         /\ etxs' = saveOp(etxs, tx, tmType, tmOp)
         /\ lastId' = id
         /\ store' = IF fails THEN store ELSE store \cup {r}
         /\ reg' = [i \in DOMAIN reg \cup {id} |->
                      IF i = id
                        THEN [tx |-> tx, tmType |-> tmType, delay |-> delay,
                              rm |-> rm, opType |-> opType, due |-> due,
                              st |-> IF fails THEN "failed" ELSE "pending",
                              crashed |-> FALSE]
                        ELSE reg[i]]
    /\ erred' = (erred \/ fails)
    /\ UNCHANGED << muLeaked, fr, invs, phase, todo, mgrs, txs, crashes,
                    codes, owed, v1vars >>

addOpAt(t, tx, rm, tmType, delay, opType) ==
    addOpWith(t, tx, rm, tmType, delay, opType, FALSE)

addOp(tx, rm, tmType, delay, opType) ==
    /\ now' = now + 1
    /\ addOpAt(now', tx, rm, tmType, delay, opType)
    /\ UNCHANGED issued

\* addOp in its two steps. First, with tm.mu locked: cache the operation and
\* allocate its id.
AddCache ==
    \E tx \in txs, timed \in BOOLEAN :
        /\ phase = "up"
        /\ ~muLeaked
        /\ fr["ad"].pc = "idle"
        /\ Cardinality(DOMAIN reg) < MaxFew
        /\ now' = now + 1
        /\ LET id == newId(now', lastId)
               delay == IF timed THEN timedDelay(1) ELSE 0
               due == addOpDue(tx, delay)
               tmOp == [id |-> id, rm |-> "rmA", due |-> due, opType |-> 1]
           IN
             /\ etxs' = saveOp(etxs, tx, IF timed THEN redoTimed ELSE redoNext,
                               tmOp)
             /\ lastId' = id
             /\ reg' = [i \in DOMAIN reg \cup {id} |->
                          IF i = id
                            THEN [tx |-> tx,
                                  tmType |-> IF timed THEN redoTimed
                                             ELSE redoNext,
                                  delay |-> delay, rm |-> "rmA",
                                  opType |-> 1, due |-> due,
                                  st |-> "pending", crashed |-> FALSE]
                            ELSE reg[i]]
             /\ fr' = [fr EXCEPT !["ad"] =
                         [Idle EXCEPT !.pc = "insert", !.tx = tx,
                                      !.timed = timed, !.rm = "rmA",
                                      !.opType = 1, !.id = id]]
        /\ UNCHANGED << store, muLeaked, invs, phase, todo, mgrs, txs, issued,
                        crashes, erred, codes, owed, v1vars >>

\* Then, with tm.mu unlocked: tm.store.Insert(&r)
AddInsert ==
    /\ phase = "up"
    /\ fr["ad"].pc = "insert"
    /\ LET f == fr["ad"] IN
         store' = store \cup
                    {[Id |-> f.id, Tx |-> f.tx, Manager |-> f.rm,
                      RedoType |-> IF f.timed THEN redoTimed ELSE redoNext,
                      Delay |-> IF f.timed THEN timedDelay(1) ELSE 0,
                      OpType |-> f.opType, Operation |-> "json"]}
    /\ fr' = [fr EXCEPT !["ad"] = Idle]
    /\ UNCHANGED << now, lastId, etxs, muLeaked, invs, phase, todo, mgrs, txs,
                    reg, issued, crashes, erred, codes, owed, v1vars >>

\* AddNext(tx, rm, opType, op)
AddNext ==
    \E tx \in txs, k \in OpKinds :
        /\ Cardinality(DOMAIN reg) < MaxOps
        /\ addOp(tx, k[1], redoNext, 0, k[2])

\* AddTimed(tx, rm, opType, op, after), after one second
AddTimedSec ==
    \E tx \in txs, k \in OpKinds :
        /\ Cardinality(DOMAIN reg) < MaxOps
        /\ addOp(tx, k[1], redoTimed, timedDelay(1), k[2])

\* AddTimed(tx, rm, opType, op, after), after in whole seconds
AddTimed ==
    \E tx \in txs, secs \in 0..MaxDelay :
        /\ Cardinality(DOMAIN reg) < MaxOps
        /\ addOp(tx, "rmA", redoTimed, timedDelay(secs), 1)

\* AddTimed(tx, rm, opType, op, after), after any duration, also a
\* negative one or a fraction of a second
AddTimedAfter ==
    \E tx \in txs, q \in (0 - MaxQuarters)..MaxQuarters :
        /\ Cardinality(DOMAIN reg) < MaxFew
        /\ addOp(tx, "rmA", redoTimed,
                 timedDelay(roundSeconds(q * (Second \div 4))), 1)

\* AddNext(tx, rm, opType, op), with a store whose Insert fails
AddNextFail ==
    \E tx \in txs, k \in OpKinds :
        /\ Cardinality(DOMAIN reg) < MaxOps
        /\ now' = now + 1
        /\ addOpWith(now', tx, k[1], redoNext, 0, k[2], TRUE)
        /\ UNCHANGED issued

\* the same calls, for fewer operations
AddNextFew ==
    \E tx \in txs :
        /\ Cardinality(DOMAIN reg) < MaxFew
        /\ addOp(tx, "rmA", redoNext, 0, 1)

AddTimedFew ==
    \E tx \in txs, secs \in 0..MaxDelay :
        /\ Cardinality(DOMAIN reg) < MaxFew
        /\ addOp(tx, "rmA", redoTimed, timedDelay(secs), 1)

\* the clock moves on by a second
AdvanceSecond ==
    /\ txs # {}
    /\ now + Second <= MaxSeconds * Second + Second
    /\ now' = now + Second
    /\ UNCHANGED << lastId, store, etxs, muLeaked, fr, invs, phase, todo, mgrs,
                    txs, reg, issued, crashes, erred, codes, owed, v1vars >>

\* The callers that hold a pointer to the etxOps of tx across an RM.Operation
\* call keep it when the entry is deleted from the map: they then see the
\* deleted entry (both lists empty, active as it was), not a later entry.
orphan(f, tx, active) ==
    [q \in Procs |->
        IF f[q].pc = "inOp" /\ f[q].tx = tx /\ f[q].orph = "no"
          THEN [f[q] EXCEPT !.orph = IF active THEN "act" ELSE "inact"]
          ELSE f[q]]

\* rm.Operation(tx, opType, op), called for tmOp by caller p
Invocation(tmOp, tx, timed, p) ==
    [op |-> tmOp.id, tx |-> tx, rm |-> tmOp.rm, opType |-> tmOp.opType,
     timed |-> timed, by |-> p, st |-> "run"]

\* (a doNext that keeps tm.mu locked while rm.Operation runs)
muKept == TRUE

\* whether tm.mu is locked while rm.Operation runs: doNext unlocks it
\* before the call and locks it again when the call has returned
muInOperation == FALSE

\* (a due check that lets every operation through)
alwaysDue(tmOp, t) == FALSE

\* tmOp.due.After(time.Now())
dueAfter(tmOp, t) == tmOp.due > t

\* doNext up to the call of rm.Operation, by caller p.  Where doNext returns,
\* its deferred Unlock leaves tm.mu free.
doNextEnter(p, tx, timed) ==
    /\ ~muLeaked
    /\ IF tx \notin DOMAIN etxs
         THEN /\ fr' = [fr EXCEPT ![p] = Idle]
              /\ UNCHANGED << etxs, invs, muLeaked >>
         ELSE LET etx0 == etxs[tx]
                  etx == IF timed /\ ~etx0.sorted
                           THEN [etx0 EXCEPT !.timed = sortStable(@),
                                             !.sorted = TRUE]
                           ELSE etx0
                  ops == IF timed THEN etx.timed ELSE etx.immediate
              IN  IF Len(ops) > 0
                    THEN IF timed /\ dueAfter(ops[1], now)
                           THEN \* next op is not due yet
                                /\ etxs' = [etxs EXCEPT ![tx] = etx]
                                /\ fr' = [fr EXCEPT ![p] = Idle]
                                /\ UNCHANGED << invs, muLeaked >>
                           ELSE \* do operation
                                /\ Len(invs) < MaxDisp
                                /\ muLeaked' = muInOperation
                                /\ etxs' = [etxs EXCEPT ![tx] =
                                              [etx EXCEPT !.isTimed = timed,
                                                          !.active = TRUE]]
                                /\ invs' = Append(invs,
                                      Invocation(ops[1], tx, timed, p))
                                /\ fr' = [fr EXCEPT ![p] =
                                            [Idle EXCEPT
                                               !.pc = "inOp", !.tx = tx,
                                               !.timed = timed,
                                               !.inv = Len(invs) + 1]]
                    ELSE \* no operation of this kind
                         /\ IF Len(etx.immediate) + Len(etx.timed) = 0
                              THEN /\ etxs' = deleteTx(etxs, tx)
                                   /\ fr' = [orphan(fr, tx, etx.active)
                                               EXCEPT ![p] = Idle]
                              ELSE /\ etxs' = [etxs EXCEPT ![tx] = etx]
                                   /\ fr' = [fr EXCEPT ![p] = Idle]
                         /\ UNCHANGED << invs, muLeaked >>

\* doNext after rm.Operation has returned to caller p.
OpReturn(p) ==
    /\ fr[p].pc = "inOp"
    /\ ~muLeaked
    /\ LET f == fr[p]
           tx == f.tx
           live == f.orph = "no"
           active == IF live THEN etxs[tx].active ELSE f.orph = "act"
           nImm == IF live THEN Len(etxs[tx].immediate) ELSE 0
           nTimed == IF live THEN Len(etxs[tx].timed) ELSE 0
           more == IF f.timed THEN nTimed > 0 ELSE nImm > 0
       IN
         /\ invs' = [invs EXCEPT ![f.inv].st =
                       IF @ = "run" THEN "async"
                       ELSE IF @ = "ended" THEN "sync" ELSE @]
         /\ IF active
              THEN \* asynchronous operation
                   /\ fr' = [fr EXCEPT ![p] = Idle]
                   /\ UNCHANGED etxs
              ELSE IF nImm + nTimed = 0
                     THEN \* delete transaction, there are no more ops
                          /\ etxs' = deleteTx(etxs, tx)
                          /\ fr' = [(IF tx \in DOMAIN etxs
                                       THEN orphan(fr, tx, etxs[tx].active)
                                       ELSE fr) EXCEPT ![p] = Idle]
                     ELSE /\ fr' = [fr EXCEPT ![p] =
                                      IF more
                                        THEN [Idle EXCEPT
                                                !.pc = "loop", !.tx = tx,
                                                !.timed = f.timed]
                                        ELSE Idle]
                          /\ UNCHANGED etxs
    /\ UNCHANGED << now, lastId, store, muLeaked, phase, todo, mgrs, txs, reg,
                    issued, crashes, erred, codes, owed, v1vars >>

\* Do(tx): the first doNext of the loop
DoCall ==
    \E tx \in txs :
        /\ phase = "up"
        /\ fr["app"].pc = "idle"
        /\ doNextEnter("app", tx, FALSE)
        /\ UNCHANGED << now, lastId, store, phase, todo, mgrs, txs, reg,
                        issued, crashes, erred, codes, owed, v1vars >>

\* a further doNext of a caller's loop, after a synchronous operation
Loop ==
    \E p \in Procs :
        /\ fr[p].pc = "loop"
        /\ doNextEnter(p, fr[p].tx, fr[p].timed)
        /\ UNCHANGED << now, lastId, store, phase, todo, mgrs, txs, reg,
                        issued, crashes, erred, codes, owed, v1vars >>

Return == \E p \in Procs : OpReturn(p)

\* worker: on a tick, doNext(tx, true) for a cached transaction
WorkerTick ==
    \E tx \in DOMAIN etxs :
        /\ fr["wk"].pc = "idle"
        /\ doNextEnter("wk", tx, TRUE)
        /\ UNCHANGED << now, lastId, store, phase, todo, mgrs, txs, reg,
                        issued, crashes, erred, codes, owed, v1vars >>

\* End(tx) on cache c and store S, with a DeleteId that fails or not: the
\* cache and store it leaves, the id it removed (0: none), whether it
\* returns with tm.mu locked, and whether it returns an error.
EndCall(c, S, tx, fails) ==
    IF tx \notin DOMAIN c
      THEN \* "Invalid transaction ID": returns without unlocking
           [etxs |-> c, store |-> S, id |-> 0, leak |-> TRUE, err |-> TRUE]
      ELSE LET etx == c[tx]
               ops == IF etx.isTimed THEN etx.timed ELSE etx.immediate
           IN  IF Len(ops) = 0
                 THEN \* "Operation already ended"
                      [etxs |-> [c EXCEPT ![tx].active = FALSE],
                       store |-> S, id |-> 0, leak |-> FALSE, err |-> TRUE]
                 ELSE [etxs |-> [c EXCEPT ![tx] =
                                   IF etx.isTimed
                                     THEN [etx EXCEPT !.active = FALSE,
                                                      !.timed = Tail(@)]
                                     ELSE [etx EXCEPT !.active = FALSE,
                                                      !.immediate = Tail(@)]],
                       store |-> IF fails THEN S
                                 ELSE storeDeleteId(S, ops[1].id),
                       id |-> ops[1].id, leak |-> FALSE, err |-> fails]

\* (an End that goes on to call the next immediate operation)
EndDispatchNext(c, tx) ==
    IF tx \in DOMAIN c /\ Len(c[tx].immediate) > 0
      THEN << Invocation(c[tx].immediate[1], tx, FALSE, "end") >>
      ELSE << >>

\* the operations End calls before it returns: none
EndDispatch(c, tx) == << >>

\* (a TM that takes no id for one of the V1 store)
noV1(txId, mx) == FALSE

\* txId <= tm.maxV1: the id is one of the V1 store
isV1(txId, mx) == txId <= mx

\* End(tx) by the RM for its invocation i, leaving the invocation as st
EndBy(i, st, fails) ==
    IF isV1(invs[i].tx, maxV1)
      THEN \* return tm.storeV1.DeleteId(int64(txId)), without tm.mu
           /\ invs' = [invs EXCEPT ![i].st = st]
           /\ storeV1' = IF fails THEN storeV1
                         ELSE storeDeleteId(storeV1, invs[i].tx)
           /\ erred' = (erred \/ fails)
           /\ UNCHANGED << now, lastId, store, etxs, muLeaked, fr, phase,
                           todo, mgrs, txs, reg, issued, crashes, codes,
                           owed, next, maxV1 >>
      ELSE
        /\ ~muLeaked
        /\ LET tx == invs[i].tx
               res == EndCall(etxs, store, tx, fails)
           IN
             /\ invs' = [invs EXCEPT ![i].st = st]
                             \o EndDispatch(res.etxs, tx)
             /\ etxs' = res.etxs
             /\ store' = res.store
             /\ muLeaked' = res.leak
             /\ erred' = (erred \/ res.err)
             /\ reg' = IF res.id # 0 /\ invs[i].st \in {"run", "async"}
                         THEN [reg EXCEPT ![invs[i].op].st =
                                 IF @ = "pending" THEN "ended" ELSE @]
                         ELSE reg
        /\ UNCHANGED << now, lastId, fr, phase, todo, mgrs, txs, issued,
                        crashes, codes, owed, v1vars >>

\* End(tx), called by the RM for its invocation i
End ==
    \E i \in 1..Len(invs) :
        /\ invs[i].st \in {"run", "async"}
        /\ EndBy(i, IF invs[i].st = "run" THEN "ended" ELSE "asyncEnd", FALSE)

\* End(tx), called by the RM a second time for an invocation that has ended
EndAgain ==
    \E i \in 1..Len(invs) :
        /\ invs[i].st \in {"sync", "asyncEnd"}
        /\ EndBy(i, "again", FALSE)

\* End(tx), with a store whose DeleteId fails
EndFail ==
    \E i \in 1..Len(invs) :
        /\ invs[i].st \in {"run", "async"}
        /\ EndCall(etxs, store, invs[i].tx, TRUE).id # 0
        /\ EndBy(i, IF invs[i].st = "run" THEN "ended" ELSE "asyncEnd", TRUE)

\* Forget(tx, rm, opType)
Forget ==
    \E tx \in txs, rm \in RMs, opType \in OpTypes :
        /\ phase = "up"
        /\ LET res == ForgetCall(etxs, store, tx, rm, opType) IN
             /\ res.err \/ ~muLeaked
             /\ etxs' = res.etxs
             /\ store' = res.store
             /\ erred' = (erred \/ res.err)
             /\ reg' = [i \in DOMAIN reg |->
                          IF i \in Range(res.dels)
                            THEN [reg[i] EXCEPT !.st = "forgotten"]
                            ELSE reg[i]]
        /\ UNCHANGED << now, lastId, muLeaked, fr, invs, phase, todo, mgrs, txs,
                        issued, crashes, codes, owed, v1vars >>

\* Forget(tx, rm, opType), with a store whose DeleteId fails: forget passes
\* each error to tm.app.Log and Forget returns nil.
ForgetFail ==
    \E tx \in txs, rm \in RMs, opType \in OpTypes :
        /\ phase = "up"
        /\ ~muLeaked
        /\ LET res == ForgetCall(etxs, store, tx, rm, opType) IN
             /\ ~res.err
             /\ res.dels # << >>
             /\ etxs' = res.etxs
             /\ reg' = [i \in DOMAIN reg |->
                          IF i \in Range(res.dels)
                            THEN [reg[i] EXCEPT !.st = "forgotten"]
                            ELSE reg[i]]
        /\ UNCHANGED << now, lastId, store, muLeaked, fr, invs, phase, todo,
                        mgrs, txs, issued, crashes, erred, codes,
                        owed, v1vars >>

\* Forget(tx, rm, opType), step by step.  Forget looks up the etxOps and
\* reads etx.immediate without tm.mu; forget takes tm.mu for its scan of the
\* slice it was passed; the result is assigned to etx.immediate after forget
\* has unlocked and deleted the records, and likewise for etx.timed.
\* First step: the lookup and the read of etx.immediate.
ForgetEnter ==
    \E tx \in txs, rm \in RMs, opType \in OpTypes :
        /\ phase = "up"
        /\ fr["app"].pc = "idle"
        /\ IF tx \notin DOMAIN etxs
             THEN \* "Invalid transaction ID"
                  /\ erred' = TRUE
                  /\ UNCHANGED fr
             ELSE /\ fr' = [fr EXCEPT !["app"] =
                              [Idle EXCEPT !.pc = "forgetImm", !.tx = tx,
                                           !.rm = rm, !.opType = opType,
                                           !.ops = etxs[tx].immediate]]
                  /\ UNCHANGED erred
        /\ UNCHANGED << now, lastId, store, etxs, muLeaked, invs, phase, todo,
                        mgrs, txs, reg, issued, crashes, codes, owed, v1vars >>

\* forget on the slice held by the caller: the scan under tm.mu, the
\* DeleteId calls, and the assignment of the result to the list of etx
ForgetStep(timed, nextPc) ==
    /\ ~muLeaked
    /\ LET f == fr["app"]
           res == forget(f.ops, f.rm, f.opType)
       IN
         /\ etxs' = IF timed
                      THEN [etxs EXCEPT ![f.tx].timed = res.ops]
                      ELSE [etxs EXCEPT ![f.tx].immediate = res.ops]
         /\ store' = storeDeleteAll(store, res.toDel)
         /\ reg' = [i \in DOMAIN reg |->
                      IF i \in Range(res.toDel)
                        THEN [reg[i] EXCEPT !.st = "forgotten"]
                        ELSE reg[i]]
         /\ fr' = [fr EXCEPT !["app"] =
                     IF nextPc = "idle" THEN Idle
                     ELSE [f EXCEPT !.pc = nextPc, !.ops = etxs[f.tx].timed]]
    /\ UNCHANGED << now, lastId, muLeaked, invs, phase, todo, mgrs, txs,
                    issued, crashes, erred, codes, owed, v1vars >>

\* etx.immediate = tm.forget(etx.immediate, rm, opType), and the read of
\* etx.timed for the next call
ForgetImmediate ==
    /\ fr["app"].pc = "forgetImm"
    /\ ForgetStep(FALSE, "forgetTimed")

\* etx.timed = tm.forget(etx.timed, rm, opType), and the return
ForgetTimed ==
    /\ fr["app"].pc = "forgetTimed"
    /\ ForgetStep(TRUE, "idle")

\* The process stops: the cache and every goroutine are lost, the store stays.
Crash ==
    /\ phase = "up"
    /\ crashes < MaxCrash
    /\ crashes' = crashes + 1
    /\ phase' = "down"
    /\ etxs' = << >>
    /\ lastId' = 0
    /\ muLeaked' = FALSE
    /\ owed' = FALSE
    /\ fr' = [p \in Procs |-> Idle]
    /\ invs' = << >>
    /\ todo' = {}
    /\ reg' = [o \in DOMAIN reg |->
                 [reg[o] EXCEPT !.crashed = (reg[o].st = "pending")]]
    /\ next' = << >>
    /\ maxV1' = 0
    /\ UNCHANGED << now, store, mgrs, txs, issued, erred, codes, storeV1 >>

\* While the process is down, the payload of a record becomes one that
\* json.Unmarshal rejects (the operation struct of the restarted program
\* differs, or the stored bytes are damaged).
Corrupt ==
    \E r \in store :
        /\ phase = "down"
        /\ r.Operation = "json"
        /\ Cardinality({q \in store : q.Operation # "json"}) < MaxBad
        /\ store' = (store \ {r}) \cup {[r EXCEPT !.Operation = "corrupt"]}
        /\ UNCHANGED << now, lastId, etxs, muLeaked, fr, invs, phase, todo,
                        mgrs, txs, reg, issued, crashes, erred, codes,
                        owed, v1vars >>

\* (a lookup that finds every manager)
anyRM(ms, name) == TRUE

\* rms[r.Manager] is not nil
knownRM(ms, name) == name \in ms

\* Recover's loop over the redo records, in id order, with the managers ms:
\* the cache it builds, the number of times it unlocks tm.mu, and whether it
\* stops at a record of a missing manager.
RECURSIVE recoverScan(_, _, _, _)
recoverScan(c, rs, ms, unlocks) ==
    IF rs = << >> THEN [etxs |-> c, unlocks |-> unlocks, abort |-> FALSE]
    ELSE LET r == Head(rs)
             tmOp == [id |-> r.Id, rm |-> r.Manager, due |-> RecoverDue(r),
                      opType |-> r.OpType]
         IN  IF ~knownRM(ms, r.Manager)
               THEN \* "Missing resource manager": unlock and return
                    [etxs |-> c, unlocks |-> unlocks + 1, abort |-> TRUE]
               ELSE IF r.Operation # "json"
                      THEN \* unmarshal error: unlock, log and continue
                           recoverScan(c, Tail(rs), ms, unlocks + 1)
                      ELSE recoverScan(saveOp(c, r.Tx, r.RedoType, tmOp),
                                       Tail(rs), ms, unlocks)

\* Recover(ms...): lock, rebuild the cache from the redo records, unlock.
\* tm.mu is locked once. A second Unlock finds the mutex either free, which
\* is the runtime's fatal error "sync: unlock of unlocked mutex" and ends the
\* process, or locked by another goroutine (the worker New has started, a
\* caller of the TM), whose lock it releases: Recover then goes on, and an
\* Unlock that will find the mutex free is still to come (owed).
RecoverCall(ms) ==
    /\ phase = "down"
    /\ mgrs' = ms
    /\ LET res == recoverScan(etxs, storeAll(store), ms, 0)
           unlocks == IF res.abort THEN res.unlocks ELSE res.unlocks + 1
           goesOn == IF res.abort
                       THEN /\ phase' = "up"
                            /\ etxs' = res.etxs
                            /\ todo' = {}
                            /\ erred' = TRUE
                       ELSE /\ phase' = "recovering"
                            /\ etxs' = res.etxs
                            /\ todo' = DOMAIN res.etxs
                            /\ UNCHANGED erred
       IN  IF unlocks > 1
             THEN \/ /\ phase' = "fatal"
                     /\ etxs' = << >>
                     /\ todo' = {}
                     /\ UNCHANGED << erred, owed, v1vars >>
                  \/ /\ goesOn
                     /\ owed' = TRUE
             ELSE /\ goesOn
                  /\ UNCHANGED owed
    /\ UNCHANGED << now, lastId, store, muLeaked, fr, invs, txs, reg, issued,
                    crashes, codes, v1vars >>

\* Recover with every resource manager registered
Recover == RecoverCall(RMs)

\* Recover with every manager, or with one left out
RecoverAny == \E ms \in {RMs, SomeRMs} : RecoverCall(ms)

\* (Recover's loop calling doNext for the timed operations)
RecoverVisitTimed ==
    \E tx \in todo :
        /\ phase = "recovering"
        /\ fr["rc"].pc = "idle"
        /\ todo' = todo \ {tx}
        /\ doNextEnter("rc", tx, TRUE)
        /\ UNCHANGED << now, lastId, store, phase, mgrs, txs, reg,
                        issued, crashes, erred, codes, owed, v1vars >>

\* Recover: doNext(tx, false) for a transaction of the rebuilt cache
RecoverVisit ==
    \E tx \in todo :
        /\ phase = "recovering"
        /\ fr["rc"].pc = "idle"
        /\ todo' = todo \ {tx}
        /\ doNextEnter("rc", tx, FALSE)
        /\ UNCHANGED << now, lastId, store, phase, mgrs, txs, reg,
                        issued, crashes, erred, codes, owed, v1vars >>

\* Recover returns
RecoverReturn ==
    /\ phase = "recovering"
    /\ fr["rc"].pc = "idle"
    /\ todo = {}
    /\ phase' = "up"
    /\ UNCHANGED << now, lastId, store, etxs, muLeaked, fr, invs, todo, mgrs,
                    txs, reg, issued, crashes, erred, codes, owed, v1vars >>

\* The Unlock that finds tm.mu free: a goroutine whose lock another Unlock
\* has released unlocks in its turn, and the runtime ends the process.
UnlockFatal ==
    /\ owed
    /\ phase \in {"recovering", "up"}
    /\ phase' = "fatal"
    /\ UNCHANGED << now, lastId, store, etxs, muLeaked, fr, invs, todo, mgrs,
                    txs, reg, issued, crashes, erred, codes, owed, v1vars >>

\* The process starts at some clock reading.
InitCode ==
    /\ now \in 0..MaxCode
    /\ lastId = 0
    /\ store = {}
    /\ etxs = << >>
    /\ muLeaked = FALSE
    /\ fr = [p \in Procs |-> Idle]
    /\ invs = << >>
    /\ phase = "up"
    /\ todo = {}
    /\ mgrs = RMs
    /\ txs = {}
    /\ reg = << >>
    /\ issued = << >>
    /\ crashes = 0
    /\ erred = FALSE
    /\ codes = << >>
    /\ owed = FALSE
    /\ next = << >>
    /\ storeV1 = {}
    /\ maxV1 = 0

\* the clock moves on between two Begin calls, by a digit's worth
CodeSkip ==
    \E d \in {Base - 1, Base * Base - 1} :
        /\ now \in txs
        /\ Cardinality(txs) < MaxTxs
        /\ now' = now + d
        /\ UNCHANGED << lastId, store, etxs, muLeaked, fr, invs, phase, todo,
                        mgrs, txs, reg, issued, crashes, erred, codes,
                        owed, v1vars >>

\* String(tx), for a transaction that Begin has returned
StringCall ==
    \E tx \in txs \ DOMAIN codes :
        /\ codes' = [t \in DOMAIN codes \cup {tx} |->
                       IF t = tx THEN String(tx) ELSE codes[t]]
        /\ UNCHANGED << now, lastId, store, etxs, muLeaked, fr, invs, phase,
                        todo, mgrs, txs, reg, issued, crashes, erred,
                        owed, v1vars >>

\* newId called again at the clock reading of the last call
IdBegin ==
    /\ Len(issued) < MaxIssue
    /\ BeginAt(now)
    /\ issued' = Append(issued, newId(now, lastId))
    /\ UNCHANGED << now, store, muLeaked, fr, invs, phase, todo, mgrs,
                    reg, crashes, erred, codes, owed, v1vars >>

IdAddNext ==
    \E tx \in txs :
        /\ Len(issued) < MaxIssue
        /\ addOpAt(now, tx, "rmA", redoNext, 0, 1)
        /\ issued' = Append(issued, newId(now, lastId))
        /\ UNCHANGED now

IdTick ==
    /\ now < MaxClock
    /\ now' = now + 1
    /\ UNCHANGED << lastId, store, etxs, muLeaked, fr, invs, phase, todo, mgrs,
                    txs, reg, issued, crashes, erred, codes, owed, v1vars >>

-----------------------------------------------------------------------------
(* The V1 interface (src/etx/etx.go) and its remnants (src/etx/etxV1.go) *)

\* a cached V1 operation
nextOp(id, rm, opType) == [id |-> id, rm |-> rm, opType |-> opType]

\* a V1 redo record
RedoV1(id, rm, opType) ==
    [Id |-> id, Manager |-> rm, OpType |-> opType, Operation |-> "json"]

\* setNext on the cache nx: the first operation of head, the operation of
\* head replaced, or another operation added
setNextCache(nx, head, nxt) ==
    IF head \notin DOMAIN nx
      THEN [t \in DOMAIN nx \cup {head} |->
              IF t = head THEN << nxt >> ELSE nx[t]]
      ELSE IF nxt.id = head
             THEN [nx EXCEPT ![head][1] = nxt]
             ELSE [nx EXCEPT ![head] = Append(@, nxt)]

\* setNext on the store S: Insert when GetIf finds no record, else Update
setNextStore(S, r) ==
    IF \E q \in S : q.Id = r.Id
      THEN {q \in S : q.Id # r.Id} \cup {r}
      ELSE S \cup {r}

\* setNext(head, id, rm, opType, op)
setNext(head, id, rm, opType) ==
    /\ next' = setNextCache(next, head, nextOp(id, rm, opType))
    /\ storeV1' = setNextStore(storeV1, RedoV1(id, rm, opType))
    /\ reg' = [i \in DOMAIN reg \cup {id} |->
                 IF i = id
                   THEN [tx |-> head, tmType |-> redoNext, delay |-> 0,
                         rm |-> rm, opType |-> opType, due |-> 0,
                         st |-> "pending", crashed |-> FALSE]
                   ELSE reg[i]]

\* SetNext(id, rm, opType, op)
SetNext ==
    \E id \in txs, k \in OpKinds :
        /\ phase = "up"
        /\ setNext(id, id, k[1], k[2])
        /\ UNCHANGED << now, lastId, store, etxs, muLeaked, fr, invs, phase,
                        todo, mgrs, txs, issued, crashes, erred, codes, owed,
                        maxV1 >>

\* BeginNext(first, rm, opType, op): setNext(first, tm.Begin(), ...)
BeginNext ==
    \E first \in txs, k \in OpKinds :
        /\ phase = "up"
        /\ Cardinality(DOMAIN reg) < MaxOps
        /\ now' = now + 1
        /\ lastId' = newId(now', lastId)
        /\ setNext(first, lastId', k[1], k[2])
        /\ UNCHANGED << store, etxs, muLeaked, fr, invs, phase, todo, mgrs,
                        txs, issued, crashes, erred, codes, owed, maxV1 >>

\* rm.Operation(id, opType, op), called by the V1 caller p: the operation
\* returns and the RM calls End later
InvocationV1(id, rm, opType, p) ==
    [op |-> id, tx |-> id, rm |-> rm, opType |-> opType, timed |-> FALSE,
     by |-> p, st |-> "async"]

\* DoNext(id): take the operations of id from the cache and call them
DoNext ==
    \E id \in DOMAIN next :
        /\ phase = "up"
        /\ Len(invs) < MaxDisp
        /\ next' = [t \in DOMAIN next \ {id} |-> next[t]]
        /\ invs' = invs \o [k \in 1..Len(next[id]) |->
                              InvocationV1(next[id][k].id, next[id][k].rm,
                                           next[id][k].opType, "v1")]
        /\ reg' = [o \in DOMAIN reg |->
                     IF \E k \in 1..Len(next[id]) : next[id][k].id = o
                       THEN [reg[o] EXCEPT !.st = "done"]
                       ELSE reg[o]]
        /\ UNCHANGED << now, lastId, store, etxs, muLeaked, fr, phase, todo,
                        mgrs, txs, issued, crashes, erred, codes, owed,
                        storeV1, maxV1 >>

\* V1 End(id), called by the RM for its invocation: tm.store.DeleteId(id)
EndOne ==
    \E i \in 1..Len(invs) :
        /\ invs[i].by = "v1"
        /\ invs[i].st = "async"
        /\ invs' = [invs EXCEPT ![i].st = "asyncEnd"]
        /\ storeV1' = storeDeleteId(storeV1, invs[i].tx)
        /\ UNCHANGED << now, lastId, store, etxs, muLeaked, fr, phase, todo,
                        mgrs, txs, reg, issued, crashes, erred, codes, owed,
                        next, maxV1 >>

\* RecoverV1's loop over the V1 records rs, in id order, with the managers
\* ms: the last id it has noted, the operations it has called, and whether
\* it stops at a record of a missing manager.
RECURSIVE recoverV1Scan(_, _, _, _)
recoverV1Scan(rs, ms, mx, called) ==
    IF rs = << >> THEN [maxV1 |-> mx, invs |-> called, abort |-> FALSE]
    ELSE LET t == Head(rs) IN
         IF ~knownRM(ms, t.Manager)
           THEN [maxV1 |-> t.Id, invs |-> called, abort |-> TRUE]
           ELSE recoverV1Scan(Tail(rs), ms, t.Id,
                              Append(called,
                                     InvocationV1(t.Id, t.Manager, t.OpType,
                                                  "rcV1")))

\* RecoverV1(store, mgrs...)
RecoverV1 ==
    \E ms \in {RMs, SomeRMs} :
        /\ phase = "up"
        /\ maxV1 = 0
        /\ LET res == recoverV1Scan(storeAll(storeV1), ms, maxV1, << >>) IN
             /\ maxV1' = res.maxV1
             /\ invs' = invs \o res.invs
             /\ erred' = (erred \/ res.abort)
        /\ mgrs' = ms
        /\ UNCHANGED << now, lastId, store, etxs, muLeaked, fr, phase, todo,
                        txs, reg, issued, crashes, codes, owed, next,
                        storeV1 >>

\* the V1 records a V1 log may hold, and the logs: no two records of a log
\* have the same id
V1Recs == {RedoV1(i, k[1], k[2]) : i \in 1..MaxV1Id, k \in OpKinds}

V1Logs ==
    {S \in SUBSET V1Recs :
        S # {} /\ \A r, q \in S : r.Id = q.Id => r = q}

\* The upgraded program starts with the log the V1 program has left; every
\* V1 id is a clock reading of before the upgrade.
InitUpgrade ==
    /\ now = MaxV1Id
    /\ lastId = 0
    /\ store = {}
    /\ etxs = << >>
    /\ muLeaked = FALSE
    /\ fr = [p \in Procs |-> Idle]
    /\ invs = << >>
    /\ phase = "up"
    /\ todo = {}
    /\ mgrs = RMs
    /\ txs = {}
    /\ reg = << >>
    /\ issued = << >>
    /\ crashes = 0
    /\ erred = FALSE
    /\ codes = << >>
    /\ owed = FALSE
    /\ next = << >>
    /\ storeV1 \in V1Logs
    /\ maxV1 = 0

-----------------------------------------------------------------------------
\* The calls of the application, with synchronous and asynchronous RMs
NextCalls ==
    \/ Begin
    \/ AddNext
    \/ AddTimedSec
    \/ DoCall
    \/ Loop
    \/ Return
    \/ End
    \/ Forget

SpecCalls == Init /\ [][NextCalls]_vars

\* Timed operations and the worker
NextTimed ==
    \/ Begin
    \/ AddTimed
    \/ AdvanceSecond
    \/ WorkerTick
    \/ Loop
    \/ Return
    \/ End

SpecTimed == Init /\ [][NextTimed]_vars

\* Operations added by one goroutine while another calls Do, the worker
\* ticks and the RMs end their operations
NextAdd ==
    \/ Begin
    \/ AddCache
    \/ AddInsert
    \/ AdvanceSecond
    \/ DoCall
    \/ Loop
    \/ Return
    \/ WorkerTick
    \/ End

SpecAdd == Init /\ [][NextAdd]_vars

\* Id allocations, also at one clock reading
NextId ==
    \/ IdBegin
    \/ IdAddNext
    \/ IdTick

SpecId == Init /\ [][NextId]_vars

\* The calls of the application, and an RM that calls End twice
NextEnd ==
    \/ Begin
    \/ AddNext
    \/ DoCall
    \/ Loop
    \/ Return
    \/ End
    \/ EndAgain

SpecEnd == Init /\ [][NextEnd]_vars

\* The calls of the application, with a store that can fail
NextStore ==
    \/ Begin
    \/ AddNext
    \/ AddNextFail
    \/ DoCall
    \/ Loop
    \/ Return
    \/ End
    \/ EndFail

SpecStore == Init /\ [][NextStore]_vars

\* Recovery with a manager left out or a record that cannot be unmarshalled
NextRecover ==
    \/ Begin
    \/ AddNext
    \/ DoCall
    \/ Loop
    \/ Return
    \/ End
    \/ Crash
    \/ Corrupt
    \/ RecoverAny
    \/ UnlockFatal
    \/ RecoverVisit
    \/ RecoverReturn

SpecRecover == Init /\ [][NextRecover]_vars

\* Forget, for pending and dispatched operations of several transactions
NextForget ==
    \/ BeginSome
    \/ AddNext
    \/ AddTimedSec
    \/ DoCall
    \/ Return
    \/ Forget

SpecForget == Init /\ [][NextForget]_vars

\* Forget in its steps, with AddNext and AddTimed calls of other goroutines
NextRace ==
    \/ Begin
    \/ AddNext
    \/ AddTimedSec
    \/ ForgetEnter
    \/ ForgetImmediate
    \/ ForgetTimed

SpecRace == Init /\ [][NextRace]_vars

\* Forget in its steps, while operations are added, dispatched and ended
NextForgetEnd ==
    \/ Begin
    \/ AddNext
    \/ DoCall
    \/ Return
    \/ End
    \/ ForgetEnter
    \/ ForgetImmediate
    \/ ForgetTimed

SpecForgetEnd == Init /\ [][NextForgetEnd]_vars

\* Transactions begun at any clock reading, and their codes
NextCode ==
    \/ BeginSome
    \/ CodeSkip
    \/ StringCall

SpecCode == InitCode /\ [][NextCode]_vars

\* Timed operations added after any duration, and the worker
NextDelay ==
    \/ Begin
    \/ AddTimedAfter
    \/ AdvanceSecond
    \/ WorkerTick
    \/ Loop
    \/ Return
    \/ End

SpecDelay == Init /\ [][NextDelay]_vars

\* Forget, with a store whose DeleteId can fail
NextLog ==
    \/ Begin
    \/ AddNext
    \/ AddTimedSec
    \/ Forget
    \/ ForgetFail

SpecLog == Init /\ [][NextLog]_vars

\* Several transactions, with and without operations, crashes and recovery
NextBegin ==
    \/ BeginSome
    \/ AddNext
    \/ DoCall
    \/ Loop
    \/ Return
    \/ End
    \/ Crash
    \/ Recover
    \/ RecoverVisit
    \/ RecoverReturn

SpecBegin == Init /\ [][NextBegin]_vars

\* The calls of the application on several transactions
NextTwo ==
    \/ BeginSome
    \/ AddNextFew
    \/ AddTimedFew
    \/ DoCall
    \/ Loop
    \/ Return
    \/ End
    \/ Forget

SpecTwo == Init /\ [][NextTwo]_vars

\* The V1 program: operations set, added and executed
NextV1 ==
    \/ Begin
    \/ SetNext
    \/ BeginNext
    \/ DoNext
    \/ EndOne

SpecV1 == Init /\ [][NextV1]_vars

\* The program after the upgrade from V1, with the V1 log
NextUpgrade ==
    \/ RecoverV1
    \/ Begin
    \/ AddNextFew
    \/ DoCall
    \/ Loop
    \/ Return
    \/ End

SpecUpgrade == InitUpgrade /\ [][NextUpgrade]_vars

\* The application calls Do again and again, the RMs end their operations,
\* the worker ticks and the clock moves on.
NextLive ==
    \/ Begin
    \/ AddNextFew
    \/ AddTimedFew
    \/ AdvanceSecond
    \/ DoCall
    \/ Loop
    \/ Return
    \/ WorkerTick
    \/ End

SpecLive ==
    /\ Init
    /\ [][NextLive]_vars
    /\ WF_vars(AdvanceSecond)
    /\ WF_vars(DoCall)
    /\ WF_vars(Loop)
    /\ WF_vars(Return)
    /\ WF_vars(WorkerTick)
    /\ WF_vars(End)

\* Immediate and timed operations, the worker, crashes and recovery
Next ==
    \/ Begin
    \/ AddNextFew
    \/ AddTimedFew
    \/ AdvanceSecond
    \/ DoCall
    \/ Loop
    \/ Return
    \/ WorkerTick
    \/ End
    \/ Crash
    \/ Recover
    \/ RecoverVisit
    \/ RecoverReturn

Spec == Init /\ [][Next]_vars

-----------------------------------------------------------------------------
(* Properties *)

\* invocations that have been dispatched and have not ended
Unended == {"run", "async"}

\* the operations added to transaction tx
OpsOf(tx) == {o \in DOMAIN reg : reg[o].tx = tx}

\* the invocations of operation o since start-up
InvsOf(o) == {i \in 1..Len(invs) : invs[i].op = o}

\* no caller is inside doNext and every dispatched operation has ended
Quiescent ==
    /\ \A p \in Procs : fr[p].pc = "idle"
    /\ \A i \in 1..Len(invs) : invs[i].st \notin Unended

\* this step dispatches an operation
Dispatches == Len(invs') = Len(invs) + 1

\* C1 (Durability): an operation that had not ended when the process
\* crashed is dispatched at most once after the crash (the "exactly once" of
\* the claim, in its safety half).
C1_RedispatchedOnce ==
    \A o \in DOMAIN reg :
        reg[o].crashed => Cardinality(InvsOf(o)) <= 1

\* C2 (At-most-one-active): no two invocations of the same transaction are
\* both dispatched and not yet ended.
C2_AtMostOneActive ==
    \A i, j \in 1..Len(invs) :
        (i < j /\ invs[i].tx = invs[j].tx)
            => ~(invs[i].st \in Unended /\ invs[j].st \in Unended)

\* C3 (Immediate ordering): in a transaction without timed operations, of
\* which Do and End are the only calls (no operation forgotten), when an
\* immediate operation has been dispatched, every immediate operation of the
\* transaction added before it has been dispatched before it and has ended.
C3_ImmediateOrder ==
    \A j \in 1..Len(invs) :
        LET tx == invs[j].tx IN
        (\A o \in OpsOf(tx) : /\ reg[o].tmType = redoNext
                              /\ reg[o].st # "forgotten")
            => \A o \in OpsOf(tx) :
                 o < invs[j].op
                    => /\ reg[o].st = "ended"
                       /\ \E i \in 1..(j - 1) : invs[i].op = o

\* C4 (Timed due-ordering): whenever a timed operation is dispatched, no
\* other timed operation cached for its transaction has an earlier due time,
\* whatever the order in which the operations were added.
C4_DueOrder ==
    [][ (Dispatches /\ invs'[Len(invs')].timed)
          => LET d == invs'[Len(invs')] IN
             /\ d.tx \in DOMAIN etxs
             /\ \E x \in Range(etxs[d.tx].timed) : x.id = d.op
             /\ \A y \in Range(etxs[d.tx].timed) : reg[d.op].due <= y.due
      ]_vars

\* C4 witness: three timed operations added with delays of 3, 1 and 2
\* seconds have been dispatched in the order 1, 2, 3.
C4_Witness ==
    /\ Len(invs) = 3
    /\ \A i \in 1..3 : invs[i].timed /\ reg[invs[i].op].delay = i
    /\ invs[3].op < invs[1].op
    /\ invs[1].op < invs[2].op

\* C5 (Immediate priority): a timed operation is never dispatched while an
\* immediate operation of the same transaction is pending in the cache.
C5_ImmediateFirst ==
    [][ (Dispatches /\ invs'[Len(invs')].timed)
          => LET tx == invs'[Len(invs')].tx IN
             tx \in DOMAIN etxs => etxs[tx].immediate = << >>
      ]_vars

\* two consecutive calls of Forget(tx, rm, opType) from the current state
Forget1(tx, rm, opType) == ForgetCall(etxs, store, tx, rm, opType)

Forget2(tx, rm, opType) ==
    ForgetCall(Forget1(tx, rm, opType).etxs, Forget1(tx, rm, opType).store,
               tx, rm, opType)

ForgetTwiceSame(tx, rm, opType) ==
    /\ ~Forget2(tx, rm, opType).err
    /\ Forget2(tx, rm, opType).etxs = Forget1(tx, rm, opType).etxs
    /\ Forget2(tx, rm, opType).store = Forget1(tx, rm, opType).store
    /\ Range(Forget2(tx, rm, opType).dels)
         \cap Range(Forget1(tx, rm, opType).dels) = {}

\* C6 (Idempotent Forget), as claimed: for every transaction, manager and
\* opType, a second Forget returns no error, leaves cache and store as the
\* first call left them, and deletes no id the first call deleted.
C6_ForgetIdempotentAll ==
    \A tx \in txs, rm \in RMs, opType \in OpTypes :
        ForgetTwiceSame(tx, rm, opType)

\* C6 (Idempotent Forget), amended: the same for every transaction that has
\* an entry in the cache.
C6_ForgetIdempotent ==
    \A tx \in DOMAIN etxs, rm \in RMs, opType \in OpTypes :
        ForgetTwiceSame(tx, rm, opType)

\* C6 witness: Forget has removed an operation of a transaction still in the
\* cache, and a second call for its manager and type finds nothing to remove
\* while operations of another kind remain.
C6_Witness ==
    \E o \in DOMAIN reg :
        /\ reg[o].st = "forgotten"
        /\ reg[o].tx \in DOMAIN etxs
        /\ Forget1(reg[o].tx, reg[o].rm, reg[o].opType).dels = << >>
        /\ Len(etxs[reg[o].tx].immediate) + Len(etxs[reg[o].tx].timed) > 0

\* the transaction has one operation, added by AddNext, and Do has returned
\* from an invocation of it that called End from inside Operation
SingleStepDone(tx, o) ==
    /\ OpsOf(tx) = {o}
    /\ reg[o].tmType = redoNext
    /\ \A i \in InvsOf(o) : invs[i].st \notin {"async", "asyncEnd"}
    /\ \E i \in InvsOf(o) : invs[i].st = "sync"

\* C7 (Single-step scenario): for a transaction with exactly one operation,
\* added by AddNext, whose RM calls End inside Operation: Do invokes the
\* operation exactly once, with its manager and opType, and when Do has
\* returned the redo record is gone and the cache has no entry for tx.
C7_SingleStep ==
    \A tx \in txs, o \in DOMAIN reg :
        SingleStepDone(tx, o)
            => /\ Cardinality(InvsOf(o)) = 1
               /\ \A i \in InvsOf(o) : /\ invs[i].opType = reg[o].opType
                                       /\ invs[i].rm = reg[o].rm
                                       /\ ~invs[i].timed
               /\ \A p \in Procs : fr[p].pc # "idle" => fr[p].tx # tx
               /\ \A r \in store : r.Id # o
               /\ tx \notin DOMAIN etxs

C7_Witness ==
    \E tx \in txs, o \in DOMAIN reg :
        SingleStepDone(tx, o) /\ reg[o].st = "ended"

\* C8 (Due-time round trip through recovery): every cached timed operation,
\* also one that Recover has rebuilt from its redo record, is due at the
\* time computed when it was added, Timestamp(tx) + delay seconds.
C8_DueRoundTrip ==
    \A tx \in DOMAIN etxs :
        \A x \in Range(etxs[tx].timed) :
            /\ x.id \in DOMAIN reg
            /\ x.due = reg[x.id].due
            /\ x.due = tx + reg[x.id].delay * Second

\* C8 witness: Recover has rebuilt a timed operation with a delay of more
\* than a second that had not ended when the process crashed.
C8_Witness ==
    /\ crashes > 0
    /\ phase = "up"
    /\ \E tx \in DOMAIN etxs :
          \E x \in Range(etxs[tx].timed) :
              reg[x.id].crashed /\ reg[x.id].delay > 1

\* C9 (Redo-record invariant): in a quiescent state reached by calls that
\* all succeeded, the store has a record for an operation exactly when the
\* operation has been added and has neither ended nor been forgotten.
C9_RecordIffPending ==
    (Quiescent /\ ~erred /\ ~muLeaked)
        => \A o \in DOMAIN reg :
             (\E r \in store : r.Id = o) <=> (reg[o].st = "pending")

\* C10 (Begin uniqueness): no two id allocations return the same identifier.
C10_UniqueIds ==
    \A i, j \in 1..Len(issued) : i < j => issued[i] # issued[j]

\* C11 (Exactly-once within a process lifetime): without a crash, no
\* operation is passed to RM.Operation more than once.
C11_ExactlyOnce ==
    crashes = 0 => \A o \in DOMAIN reg : Cardinality(InvsOf(o)) <= 1

\* the operation is to be dispatched: it is timed, or Do has been called
\* for its transaction, and it has not been forgotten
Owed(o) ==
    /\ reg[o].st # "forgotten"
    /\ \/ reg[o].tmType = redoTimed
       \/ \E i \in 1..Len(invs) : invs[i].tx = reg[o].tx /\ invs[i].by = "app"

\* C12 (Eventual execution): with Do called again and again, every
\* operation ended by its RM, a ticking worker and a clock that moves on,
\* from some time on every operation that is to be dispatched has been
\* dispatched (as far as the run has invocations left to explore).
C12_EventuallyDispatched ==
    <>[](\/ Len(invs) >= MaxDisp
         \/ \A o \in DOMAIN reg : Owed(o) => InvsOf(o) # {})

\* C13 (End with an unknown id): the first call that returns an error
\* leaves the cache and the redo store unchanged and tm.mu unlocked.
C13_EndErrorHarmless ==
    [][ (~erred /\ erred')
          => (etxs' = etxs /\ store' = store /\ ~muLeaked') ]_vars

\* this step is a second End call for invocation i
EndsAgain(i) == invs[i].st # "again" /\ invs'[i].st = "again"

\* C14 (Double End): a second End for an operation that has ended returns an
\* error, removes no operation from the cache and deletes no redo record.
C14_SecondEndHarmless ==
    [][ \A i \in 1..Len(invs) :
          EndsAgain(i)
            => /\ EndCall(etxs, store, invs[i].tx, FALSE).err
               /\ store' = store
               /\ \A tx \in DOMAIN etxs :
                     /\ tx \in DOMAIN etxs'
                     /\ etxs'[tx].immediate = etxs[tx].immediate
                     /\ etxs'[tx].timed = etxs[tx].timed ]_vars

\* this step is the End call of invocation i, whose Operation had returned
EndsAsync(i) == invs[i].st = "async" /\ invs'[i].st = "asyncEnd"

CachedIds ==
    UNION {{x.id : x \in Range(etxs[tx].immediate) \cup Range(etxs[tx].timed)}
             : tx \in DOMAIN etxs}

\* C16 (Store errors): also after a failed Insert or DeleteId the cache
\* agrees with the store: the cached operations are those with a record.
C16_CacheAgreesWithStore ==
    CachedIds = {r.Id : r \in store}

\* Forget(tx, rm, opType) leaves of a list the operations that do not match
Unmatched(ops, rm, opType) ==
    LET keep(x) == ~(x.rm = rm /\ x.opType = opType)
    IN  SelectSeq(ops, keep)

\* the ids of the operations of tx that match
MatchedIds(tx, rm, opType) ==
    {x.id : x \in {y \in Range(etxs[tx].immediate) \cup Range(etxs[tx].timed) :
                     y.rm = rm /\ y.opType = opType}}

\* C17 (Forget effect): Forget(tx, rm, opType) removes from both lists of tx
\* exactly the operations of that manager and type, keeps the others in
\* their order, deletes exactly the records of the removed operations, and
\* leaves the other transactions as they are.
C17_ForgetEffect ==
    \A tx \in DOMAIN etxs, rm \in RMs, opType \in OpTypes :
        LET res == Forget1(tx, rm, opType) IN
        /\ ~res.err
        /\ DOMAIN res.etxs = DOMAIN etxs
        /\ res.etxs[tx].immediate = Unmatched(etxs[tx].immediate, rm, opType)
        /\ res.etxs[tx].timed = Unmatched(etxs[tx].timed, rm, opType)
        /\ Range(res.dels) = MatchedIds(tx, rm, opType)
        /\ res.store = {r \in store : r.Id \notin MatchedIds(tx, rm, opType)}
        /\ \A t \in DOMAIN etxs \ {tx} : res.etxs[t] = etxs[t]

\* C17 witness: Forget has removed an operation, its transaction keeps a
\* later operation of the same list, and another transaction is in the
\* cache with operations of its own.
C17_Witness ==
    \E o \in DOMAIN reg :
        /\ reg[o].st = "forgotten"
        /\ reg[o].tx \in DOMAIN etxs
        /\ \E x \in Range(etxs[reg[o].tx].immediate)
                      \cup Range(etxs[reg[o].tx].timed) :
              x.id > o /\ reg[x.id].tmType = reg[o].tmType
        /\ \E t \in DOMAIN etxs :
              t # reg[o].tx /\ Len(etxs[t].immediate) + Len(etxs[t].timed) > 0

AllJson == \A r \in store : r.Operation = "json"

\* this step is a Recover call up to its return or its first doNext
Recovers == phase = "down" /\ phase' # "down"

C20_BadRecordSkipped ==
    [][ (Recovers /\ ~AllJson /\ \A r \in store : r.Manager \in mgrs')
          => /\ phase' = "recovering"
             /\ store' = store
             /\ \A r \in store :
                   r.Operation = "json"
                     => /\ r.Tx \in DOMAIN etxs'
                        /\ \E x \in Range(etxs'[r.Tx].immediate)
                                      \cup Range(etxs'[r.Tx].timed) :
                              x.id = r.Id ]_vars

C22_CacheSerialized ==
    \A o \in DOMAIN reg : reg[o].st = "pending" => o \in CachedIds

\* C23 (Transaction code round trip): Id applied to the String code of a
\* transaction returns the transaction and no error, and two different
\* transactions have different codes.
C23_CodeRoundTrip ==
    /\ \A tx \in DOMAIN codes : Id(codes[tx]) = [id |-> tx, err |-> FALSE]
    /\ \A t1, t2 \in DOMAIN codes : t1 # t2 => codes[t1] # codes[t2]

\* C23 witness: two transactions have codes of two and of three characters,
\* neither of which reads the same in both directions.
C23_Witness ==
    \E t1, t2 \in DOMAIN codes :
        /\ Len(codes[t1]) = 2
        /\ Len(codes[t2]) = 3
        /\ codes[t1] # reverse(codes[t1])
        /\ codes[t2] # reverse(codes[t2])

\* C24 (Minimum delay): the delay of every timed operation, in its redo
\* record and in its due time, is at least one second, so the operation is
\* due after the creation time of its transaction.
C24_DelayAtLeastOne ==
    /\ \A o \in DOMAIN reg :
          reg[o].tmType = redoTimed
            => reg[o].delay >= 1 /\ reg[o].due > Timestamp(reg[o].tx)
    /\ \A r \in store : r.RedoType = redoTimed => r.Delay >= 1

\* this step is a Forget call in which DeleteId failed for an operation it
\* discarded: the operation is forgotten and its record is still stored
ForgetDeleteFails ==
    \E o \in DOMAIN reg :
        /\ reg[o].st = "pending"
        /\ reg'[o].st = "forgotten"
        /\ \E r \in store' : r.Id = o

\* C25 (Store errors are surfaced): a Forget call in which DeleteId failed
\* returns an error to its caller.
C25_ForgetReturnsStoreError ==
    [][ForgetDeleteFails => erred']_vars

\* C26 (Cache-entry invariant): a transaction has an entry in the cache
\* exactly when one of its operations is pending, that is, has neither ended
\* nor been forgotten.
C26_EntryIffPending ==
    \A tx \in txs :
        (tx \in DOMAIN etxs) <=> (\E o \in OpsOf(tx) : reg[o].st = "pending")

\* C27 (Active-flag invariant): for every transaction in the cache, active
\* is true exactly when an operation of the transaction has been dispatched
\* and End has not been called for it.
C27_ActiveIffDispatched ==
    \A tx \in DOMAIN etxs :
        etxs[tx].active
            <=> (\E i \in 1..Len(invs) :
                    invs[i].tx = tx /\ invs[i].st \in Unended)

\* the operations cached for tx, immediate and timed
CachedOps(tx) == etxs[tx].immediate \o etxs[tx].timed

\* C28 (Operation-id uniqueness): the id of a cached operation differs from
\* the id of every other cached operation, of its own or another
\* transaction, and from the TxId of every other transaction.
C28_OpIdsUnique ==
    \A tx \in DOMAIN etxs :
        \A i \in 1..Len(CachedOps(tx)) :
            /\ \A t \in txs \ {tx} : CachedOps(tx)[i].id # t
            /\ \A tx2 \in DOMAIN etxs :
                  \A j \in 1..Len(CachedOps(tx2)) :
                      (<< tx, i >> # << tx2, j >>)
                          => CachedOps(tx2)[j].id # CachedOps(tx)[i].id

\* C29 (No early timed dispatch): when a timed operation is dispatched, the
\* clock is not before its due time, Timestamp(tx) + delay seconds, and so
\* the earliest due time of the transaction's timed operations has passed.
C29_NotBeforeDue ==
    [][ (Dispatches /\ invs'[Len(invs')].timed)
          => LET d == invs'[Len(invs')] IN
             /\ d.tx \in DOMAIN etxs
             /\ \E x \in Range(etxs[d.tx].timed) :
                   /\ x.id = d.op
                   /\ x.due <= now
                   /\ x.due = Timestamp(d.tx) + reg[d.op].delay * Second
             /\ \E y \in Range(etxs[d.tx].timed) :
                   /\ y.due <= now
                   /\ \A z \in Range(etxs[d.tx].timed) : y.due <= z.due
      ]_vars

\* C29 witness: a timed operation with a delay of two seconds or more, which
\* Recover has rebuilt, has been dispatched by the worker after its due time.
C29_Witness ==
    \E i \in 1..Len(invs) :
        /\ invs[i].timed
        /\ invs[i].by = "wk"
        /\ reg[invs[i].op].crashed
        /\ reg[invs[i].op].delay >= 2
        /\ reg[invs[i].op].due <= now

\* C30 (Stable ties): when a timed operation is dispatched, no operation of
\* its transaction that is due at the same time and was added before it is
\* still waiting in the cache; operations with equal due times are
\* dispatched in the order in which they were added.
C30_TiesInAddOrder ==
    [][ (Dispatches /\ invs'[Len(invs')].timed)
          => LET d == invs'[Len(invs')] IN
             /\ d.tx \in DOMAIN etxs
             /\ \A y \in Range(etxs[d.tx].timed) :
                   y.due = reg[d.op].due => y.id >= d.op
      ]_vars

\* C30 witness: two timed operations due at the same time were added, then a
\* third one due earlier; the three have been dispatched, the third first
\* and the two in the order in which they were added.
C30_Witness ==
    /\ Len(invs) = 3
    /\ \A i \in 1..3 : invs[i].timed
    /\ invs[2].op < invs[3].op
    /\ invs[3].op < invs[1].op
    /\ reg[invs[2].op].due = reg[invs[3].op].due
    /\ reg[invs[1].op].due < reg[invs[2].op].due

\* the last operation that Do's goroutine has dispatched (0: none)
LastByApp ==
    LET S == {i \in 1..Len(invs) : invs[i].by = "app"}
    IN  IF S = {} THEN 0
        ELSE invs[CHOOSE i \in S : \A j \in S : j <= i].op

\* C31 (Do terminates and stops at the right point): when Do returns, no
\* immediate operation of the transaction is ready: the transaction is not
\* in the cache, or has no immediate operation left, or its operation is
\* still active; and Do never dispatches the operation again that it has
\* just dispatched.
C31_DoStops ==
    [][ /\ (fr["app"].pc # "idle" /\ fr'["app"].pc = "idle")
            => LET tx == fr["app"].tx IN
               \/ tx \notin DOMAIN etxs'
               \/ etxs'[tx].immediate = << >>
               \/ etxs'[tx].active
        /\ (Dispatches /\ fr["app"].pc = "loop" /\ fr'["app"].pc = "inOp")
            => invs'[Len(invs')].op # LastByApp ]_vars

\* C32 (Begin leaves no trace): a Begin call changes neither the store nor
\* the cache and dispatches nothing, and a transaction to which no operation
\* has been added has no record, no cache entry and no invocation, also
\* after a crash and Recover.
C32_BeginNoTrace ==
    [][ /\ txs' # txs
            => (store' = store /\ etxs' = etxs /\ invs' = invs)
        /\ \A tx \in txs' :
              (\A o \in DOMAIN reg' : reg'[o].tx # tx)
                  => /\ tx \notin DOMAIN etxs'
                     /\ \A r \in store' : r.Tx # tx
                     /\ \A i \in 1..Len(invs') : invs'[i].tx # tx ]_vars

\* C32 witness: of two transactions one has no operation; after a crash
\* Recover has dispatched an operation of the other one and has returned.
C32_Witness ==
    /\ crashes > 0
    /\ phase = "up"
    /\ \E tx \in txs : \A o \in DOMAIN reg : reg[o].tx # tx
    /\ \E i \in 1..Len(invs) : invs[i].by = "rc"

\* the cache entry of transaction t in cache c (<< >>: none)
EntryOf(c, t) == IF t \in DOMAIN c THEN << c[t] >> ELSE << >>

\* this step changes the cache entry or the redo records of transaction t
ChangesTx(t) ==
    \/ EntryOf(etxs', t) # EntryOf(etxs, t)
    \/ {r \in store' : r.Tx = t} # {r \in store : r.Tx = t}

\* the transactions of the operations this step adds, forgets, dispatches,
\* ends or returns from
StepTxs ==
    {invs'[i].tx : i \in {j \in 1..Len(invs') :
                             j > Len(invs) \/ invs'[j] # invs[j]}}
    \cup {reg'[o].tx : o \in {q \in DOMAIN reg' :
                                q \notin DOMAIN reg \/ reg'[q] # reg[q]}}

\* C33 (Transaction independence): a call changes the cache entry and the
\* redo records of one transaction at most, the transaction of the
\* operation it is about; those of every other transaction stay as they are.
C33_OtherTxUnchanged ==
    [][ \A b \in txs :
          ChangesTx(b)
            => /\ \A a \in txs : a # b => ~ChangesTx(a)
               /\ StepTxs # {} => b \in StepTxs ]_vars

\* C33 witness: an operation of one transaction is active, its RM has not
\* called End, and an operation of another transaction has been dispatched
\* after it and has ended.
C33_Witness ==
    \E i, j \in 1..Len(invs) :
        /\ i < j
        /\ invs[i].tx # invs[j].tx
        /\ invs[i].st = "async"
        /\ invs[j].st = "sync"
        /\ invs[i].tx \in DOMAIN etxs
        /\ etxs[invs[i].tx].active

\* the pending operations of transaction tx in cache c: the immediate ones
\* in order, the timed ones with their due times
PendingOf(c, tx) ==
    IF tx \in DOMAIN c
      THEN [immediate |-> [i \in 1..Len(c[tx].immediate) |->
                              [id |-> c[tx].immediate[i].id,
                               rm |-> c[tx].immediate[i].rm,
                               opType |-> c[tx].immediate[i].opType]],
            timed |-> Range(c[tx].timed)]
      ELSE [immediate |-> << >>, timed |-> {}]

\* the cache Recover would build from the store, before any dispatch
Rebuilt == recoverScan(<< >>, storeAll(store), RMs, 0).etxs

\* no caller is inside doNext and no transaction has an active operation
NoneActive ==
    /\ \A p \in Procs : fr[p].pc = "idle"
    /\ \A tx \in DOMAIN etxs : ~etxs[tx].active

\* C34 (Cache is derived from the log): when no operation is active, the
\* cache rebuilt from the store by Recover's replay holds for every
\* transaction the pending immediate operations of the live cache in the
\* same order and its pending timed operations with the same due times.
C34_CacheFromLog ==
    (phase = "up" /\ ~erred /\ NoneActive)
        => \A tx \in txs : PendingOf(Rebuilt, tx) = PendingOf(etxs, tx)

\* the records Recover has skipped: it has read the whole store, and their
\* payload does not unmarshal
Skipped ==
    IF crashes > 0 /\ phase \in {"recovering", "up"} /\ mgrs = RMs
      THEN {r \in store : r.Operation # "json"}
      ELSE {}

\* C35 (Stall at an unreadable operation): while a record Recover has
\* skipped is in the store, no operation added to its transaction after it
\* has been dispatched since the restart.
C35_StallsAtSkipped ==
    \A r \in Skipped :
        \A i \in 1..Len(invs) : ~(invs[i].tx = r.Tx /\ invs[i].op > r.Id)

\* the operation most recently dispatched for transaction tx (0: none)
LastDispatched(tx) ==
    LET S == {i \in 1..Len(invs) : invs[i].tx = tx}
    IN  IF S = {} THEN 0 ELSE invs[CHOOSE i \in S : \A j \in S : j <= i].op

\* the ids of the operations cached for transaction tx in cache c
IdsOf(c, tx) ==
    IF tx \in DOMAIN c
      THEN {c[tx].immediate[k].id : k \in 1..Len(c[tx].immediate)}
           \cup {c[tx].timed[k].id : k \in 1..Len(c[tx].timed)}
      ELSE {}

\* C36 (End completes the dispatched operation): an End call for a
\* transaction with an active operation removes from the cache and deletes
\* from the store no operation but the one most recently dispatched for the
\* transaction.
C36_EndsDispatched ==
    [][ \A i \in 1..Len(invs) :
          LET tx == invs[i].tx IN
          ( /\ invs[i].st \in {"run", "async"}
            /\ i <= Len(invs')
            /\ invs'[i].st \in {"ended", "asyncEnd"}
            /\ tx \in DOMAIN etxs
            /\ etxs[tx].active )
            => /\ IdsOf(etxs, tx) \ IdsOf(etxs', tx)
                    \subseteq {LastDispatched(tx)}
               /\ {r.Id : r \in store \ store'}
                    \subseteq {LastDispatched(tx)}
      ]_vars

\* C37 (Write-ahead before dispatch): an operation is passed to
\* RM.Operation only when its redo record is in the store, and the store
\* holds no record of an operation whose End has been called.
C37_WriteAhead ==
    [][ /\ Dispatches
          => \E r \in store : r.Id = invs'[Len(invs')].op
        /\ \A i \in 1..Len(invs') :
              invs'[i].st \in {"ended", "sync", "asyncEnd"}
                => \A r \in store' : r.Id # invs'[i].op ]_vars

\* this step ends the forget call of a Forget on the list old of its
\* transaction, leaving the list new: every operation of old that is not of
\* the manager and type forgotten is in new, and new holds no operation
\* that was not in old
ForgetKeeps(old, new, f) ==
    /\ \A x \in Range(old) :
          (x.rm # f.rm \/ x.opType # f.opType) => x \in Range(new)
    /\ Range(new) \subseteq Range(old)

\* C38 (No lost update under concurrent Forget): when Forget assigns the
\* result of forget to a list of the cache, every operation the list held,
\* also one added while the Forget ran, that does not match the manager and
\* type is still in the list, and no operation that had left the list, such
\* as one ended while the Forget ran, is in it again.
C38_ForgetKeepsUpdates ==
    [][ LET f == fr["app"] IN
        f.tx \in DOMAIN etxs
          => /\ (f.pc = "forgetImm" /\ fr'["app"].pc = "forgetTimed")
                  => ForgetKeeps(etxs[f.tx].immediate,
                                 etxs'[f.tx].immediate, f)
             /\ (f.pc = "forgetTimed" /\ fr'["app"].pc = "idle")
                  => ForgetKeeps(etxs[f.tx].timed, etxs'[f.tx].timed, f)
      ]_vars

\* the ids of S in ascending order
RECURSIVE idsInOrder(_)
idsInOrder(S) ==
    IF S = {} THEN << >>
    ELSE LET m == CHOOSE o \in S : \A q \in S : o <= q
         IN  << m >> \o idsInOrder(S \ {m})

\* the operations set or added for the V1 transaction head that DoNext has
\* not executed: its own first, then those of BeginNext in the order added
OwedV1(head) ==
    idsInOrder({o \in DOMAIN reg : reg[o].tx = head /\ reg[o].st = "pending"})

\* C39 (V1 SetNext/DoNext): while the operation set for a transaction waits
\* for the first DoNext the store holds one record of the transaction, that of
\* the operation set last, and DoNext executes the operation set last, then
\* the operations added with BeginNext in the order added, each once, so
\* that a second DoNext executes nothing.
C39_DoNextRunsAll ==
    [][ /\ \A id \in txs :
              ( /\ id \in DOMAIN reg
                /\ reg[id].st = "pending"
                /\ \A i \in 1..Len(invs) : invs[i].op # id )
                => {r \in storeV1 : r.Id = id}
                       = {RedoV1(id, reg[id].rm, reg[id].opType)}
        /\ \A id \in DOMAIN next :
              next' # next /\ id \notin DOMAIN next'
                => LET new == SubSeq(invs', Len(invs) + 1, Len(invs')) IN
                   /\ [k \in 1..Len(new) |-> new[k].op] = OwedV1(id)
                   /\ \A k \in 1..Len(new) :
                         /\ new[k].rm = reg[new[k].op].rm
                         /\ new[k].opType = reg[new[k].op].opType ]_vars

\* this step is the End call of invocation i
EndsCall(i) ==
    /\ i <= Len(invs')
    /\ invs[i].st \in {"run", "async"}
    /\ invs'[i].st \in {"ended", "asyncEnd"}

\* C40 (V1 compatibility routing): RecoverV1, given every manager, calls
\* the operation of every V1 record once, in ascending id order, and leaves
\* maxV1 the largest V1 id; an End call for an id up to maxV1 deletes the
\* record of that id from the V1 store and changes neither the V2 cache nor
\* the V2 store; an End call for an operation of a transaction begun since
\* leaves the V1 store as it is.
C40_V1Routing ==
    [][ /\ (maxV1 = 0 /\ maxV1' > 0 /\ mgrs' = RMs)
             => LET new == SubSeq(invs', Len(invs) + 1, Len(invs')) IN
                /\ [k \in 1..Len(new) |-> new[k].op]
                       = idsInOrder({r.Id : r \in storeV1})
                /\ \A r \in storeV1 : r.Id <= maxV1'
                /\ \E r \in storeV1 : r.Id = maxV1'
        /\ \A i \in 1..Len(invs) :
              EndsCall(i)
                => /\ invs[i].tx <= maxV1
                        => /\ storeV1' = {r \in storeV1 : r.Id # invs[i].tx}
                           /\ etxs' = etxs
                           /\ store' = store
                   /\ invs[i].tx \in txs
                        => /\ storeV1' = storeV1
                           /\ invs[i].tx > maxV1 ]_vars

\* C40 witness: after RecoverV1, the End call of a V1 operation has deleted
\* its record, another V1 record is in the V1 store, and an operation of a
\* transaction begun after the upgrade has ended.
C40_Witness ==
    /\ maxV1 > 0
    /\ storeV1 # {}
    /\ \E i \in 1..Len(invs) :
          /\ invs[i].by = "rcV1"
          /\ invs[i].st = "asyncEnd"
          /\ \A r \in storeV1 : r.Id # invs[i].tx
    /\ \E j \in 1..Len(invs) :
          /\ invs[j].tx \in txs
          /\ invs[j].st \in {"ended", "sync", "asyncEnd"}
          /\ \A r \in store : r.Id # invs[j].op

====
